---- MODULE Spec2Model ----
(* Model of maskrcnn_benchmark/engine/trainer.py: reduce_loss_dict, run by   *)
(* world_size processes around one blocking dist.reduce, and the iteration   *)
(* loop of do_train, run by one process.                                     *)
EXTENDS Integers, Sequences, FiniteSets, TLC

\* ---------------------------------------------------------------- bounds
MaxWorld == 2
MaxLoss == 1
MaxLen == 3
MaxStart == 2
MaxPeriod == 3
MaxAccSteps == 2

\* ------------------------------------------------------ program constants
LogEvery == 20
VerboseAfter == 500
PadWidth == 7

VARIABLES
  \* reduce_loss_dict, one copy of the locals per rank
  world_size, loss_dict, key_order, rpc, loss_names, all_losses,
  reduced_losses, reduce_calls,
  \* do_train: arguments and module state
  data_loader_len, loader_batches, checkpoint_period, use_amp, apex_present,
  ACCUMULATE_GRAD, ACCUMULATE_STEPS, has_callback, arguments_iteration,
  \* do_train: locals
  pc, max_iter, start_iter, iteration, consumed,
  TIME_DATA_TO_GPU, TIME_FORWARD, TIME_BACKWARD, TIME_REDUCE, TIME_OPTIMIZER,
  TIME_LOGGING, TIME_DATALOADER,
  \* observation: attempted list writes, the calls made in order, the exception
  writes, trace, error, info_lines

rvars == <<world_size, loss_dict, key_order, rpc, loss_names, all_losses,
           reduced_losses, reduce_calls>>
tinputs == <<data_loader_len, loader_batches, checkpoint_period, use_amp,
             apex_present, ACCUMULATE_GRAD, ACCUMULATE_STEPS, has_callback>>
tarrays == <<TIME_DATA_TO_GPU, TIME_FORWARD, TIME_BACKWARD, TIME_REDUCE,
             TIME_OPTIMIZER, TIME_LOGGING, TIME_DATALOADER>>
tvars == <<tinputs, arguments_iteration, pc, max_iter, start_iter, iteration,
           consumed, tarrays, writes, trace, error, info_lines>>
vars == <<rvars, tvars>>

\* =========================================================================
\* reduce_loss_dict
\* =========================================================================
\* the loss names a model returns, written as their rank under sorted()
Keys == {1, 2}
Ranks == 0..(world_size - 1)

RECURSIVE GCD(_, _)
GCD(a, b) == IF b = 0 THEN a ELSE GCD(b, a % b)

\* a tensor element is an exact rational <<numerator, denominator>>
Scalar(n) == <<n, 1>>

\* all_losses /= world_size, elementwise
TrueDiv(q, w) ==
  LET n == q[1]
      d == q[2] * w
      g == GCD(n, d)
  IN  IF n = 0 THEN <<0, 1>> ELSE <<n \div g, d \div g>>

RECURSIVE SeqSum(_)
SeqSum(s) == IF s = <<>> THEN 0 ELSE Head(s) + SeqSum(Tail(s))

\* the keys of a dict in insertion order are a sequence without repetition
Perms(K) ==
  {s \in [1..Cardinality(K) -> K] : \A i, j \in DOMAIN s : i # j => s[i] # s[j]}

RangeOf(s) == {s[i] : i \in DOMAIN s}

\* dict.keys() without sorted(): insertion order
InsertionOrder(order) == order

\* sorted(loss_dict.keys())
SortedKeys(order) ==
  LET K == RangeOf(order)
  IN  CHOOSE s \in Perms(K) : \A i, j \in DOMAIN s : i < j => s[i] < s[j]

\* torch.stack([loss_dict[k] for k in names], dim=0)
Stack(d, names) == [i \in DOMAIN names |-> Scalar(d[names[i]])]

\* what dist.reduce(op=SUM) leaves in the tensor of rank dst: the
\* elementwise sum over all ranks' tensors
ReduceSum(tensors, n) ==
  [i \in 1..n |-> Scalar(SeqSum([r \in 1..world_size |-> tensors[r - 1][i][1]]))]

\* zip pairing the values back to front
ZipReversed(names, values) ==
  [k \in RangeOf(names) |->
     LET i == CHOOSE j \in DOMAIN names : names[j] = k
     IN  values[Len(values) + 1 - i]]

\* {k: v for k, v in zip(loss_names, all_losses)}
ZipDict(names, values) ==
  [k \in RangeOf(names) |->
     LET i == CHOOSE j \in DOMAIN names : names[j] = k
     IN  values[i]]

NoDict == [k \in {} |-> <<0, 1>>]

ReduceInit ==
  /\ world_size \in 1..MaxWorld
  /\ \E K \in (SUBSET Keys) \ {{}} :
       /\ loss_dict \in [Ranks -> [K -> 0..MaxLoss]]
       /\ key_order \in [Ranks -> Perms(K)]
  /\ rpc = [r \in Ranks |-> "call"]
  /\ loss_names = [r \in Ranks |-> <<>>]
  /\ all_losses = [r \in Ranks |-> <<>>]
  /\ reduced_losses = [r \in Ranks |-> NoDict]
  /\ reduce_calls = [r \in Ranks |-> 0]

\* lines 26-28: world_size < 2 returns the argument itself
ReturnUnreduced(r) ==
  /\ rpc[r] = "call"
  /\ world_size < 2
  /\ reduced_losses' = [reduced_losses EXCEPT ![r] =
                          [k \in DOMAIN loss_dict[r] |-> Scalar(loss_dict[r][k])]]
  /\ rpc' = [rpc EXCEPT ![r] = "returned"]
  /\ UNCHANGED <<world_size, loss_dict, key_order, loss_names, all_losses,
                 reduce_calls>>
  /\ UNCHANGED tvars

\* lines 29-35: names in sorted order, values stacked in the same order
StackLosses(r) ==
  /\ rpc[r] = "call"
  /\ world_size >= 2
  /\ loss_names' = [loss_names EXCEPT ![r] = SortedKeys(key_order[r])]
  /\ all_losses' = [all_losses EXCEPT ![r] =
                      Stack(loss_dict[r], SortedKeys(key_order[r]))]
  /\ rpc' = [rpc EXCEPT ![r] = "reduce"]
  /\ UNCHANGED <<world_size, loss_dict, key_order, reduced_losses, reduce_calls>>
  /\ UNCHANGED tvars

\* line 36: the blocking collective completes once every rank has entered it.
\* Rank 0 receives the sum; the tensor of any other rank is either left as it
\* was or overwritten by the sum (its content is not specified).
DistReduce ==
  /\ \A r \in Ranks : rpc[r] = "reduce"
  /\ LET n == Len(all_losses[0])
         total == ReduceSum(all_losses, n)
     IN  \E keep \in [Ranks \ {0} -> BOOLEAN] :
           all_losses' = [r \in Ranks |->
                            IF r # 0 /\ keep[r] THEN all_losses[r] ELSE total]
  /\ reduce_calls' = [r \in Ranks |-> reduce_calls[r] + 1]
  /\ rpc' = [r \in Ranks |-> "reduced"]
  /\ UNCHANGED <<world_size, loss_dict, key_order, loss_names, reduced_losses>>
  /\ UNCHANGED tvars

\* lines 37-42: rank 0 divides by world_size, every rank zips and returns
DivideAndReturn(r) ==
  /\ rpc[r] = "reduced"
  /\ LET t == IF r = 0
              THEN [i \in DOMAIN all_losses[r] |->
                      TrueDiv(all_losses[r][i], world_size)]
              ELSE all_losses[r]
     IN  /\ all_losses' = [all_losses EXCEPT ![r] = t]
         /\ reduced_losses' = [reduced_losses EXCEPT ![r] =
                                 ZipDict(loss_names[r], t)]
  /\ rpc' = [rpc EXCEPT ![r] = "returned"]
  /\ UNCHANGED <<world_size, loss_dict, key_order, loss_names, reduce_calls>>
  /\ UNCHANGED tvars

ReduceNext ==
  \/ \E r \in Ranks : ReturnUnreduced(r)
  \/ \E r \in Ranks : StackLosses(r)
  \/ DistReduce
  \/ \E r \in Ranks : DivideAndReturn(r)

\* =========================================================================
\* do_train
\* =========================================================================
DigitChar == <<"0", "1", "2", "3", "4", "5", "6", "7", "8", "9">>

RECURSIVE Digits(_)
Digits(n) ==
  IF n < 10 THEN <<DigitChar[n + 1]>>
  ELSE Digits(n \div 10) \o <<DigitChar[(n % 10) + 1]>>

RECURSIVE ZeroPad(_, _)
ZeroPad(s, w) == IF Len(s) >= w THEN s ELSE ZeroPad(<<"0">> \o s, w)

\* "model_{:07d}".format(iteration)
CheckpointName(n) == <<"model_">> \o ZeroPad(Digits(n), PadWidth)

FinalName == <<"model_", "final">>

\* [0.0]*max_iter
ZeroList(n) == [i \in 1..n |-> 0]

\* a list index Python accepts
IndexOk(arr, i) == i < Len(arr) /\ i >= 0 - Len(arr)

\* arr[i] = <a measured time>
SetItem(arr, i) ==
  [arr EXCEPT ![IF i < 0 THEN Len(arr) + i + 1 ELSE i + 1] = 1]

\* if iteration < len(TIME_DATA_TO_GPU): arr[iteration-1] = ...
TimedWrite(arr, it) == IF it < Len(TIME_DATA_TO_GPU) THEN SetItem(arr, it - 1) ELSE arr

TimedWriteLog(name, it) ==
  IF it < Len(TIME_DATA_TO_GPU) THEN writes \cup {<<name, it - 1>>} ELSE writes

Event(kind, it) == [ev |-> kind, it |-> it, name |-> <<>>, args |-> 0, ret |-> FALSE]

SaveEvent(it, nm, args) ==
  [ev |-> "save", it |-> it, name |-> nm, args |-> args, ret |-> FALSE]

CallbackEvent(it, r) ==
  [ev |-> "callback", it |-> it, name |-> <<>>, args |-> 0, ret |-> r]

ReduceIdle ==
  /\ world_size = 1
  /\ loss_dict = [r \in {0} |-> [k \in {1} |-> 0]]
  /\ key_order = [r \in {0} |-> <<1>>]
  /\ rpc = [r \in {0} |-> "returned"]
  /\ loss_names = [r \in {0} |-> <<>>]
  /\ all_losses = [r \in {0} |-> <<>>]
  /\ reduced_losses = [r \in {0} |-> NoDict]
  /\ reduce_calls = [r \in {0} |-> 0]

TrainInit ==
  /\ ReduceIdle
  /\ data_loader_len \in 0..MaxLen
  /\ loader_batches \in 0..data_loader_len
  /\ checkpoint_period \in 1..MaxPeriod
  /\ use_amp \in BOOLEAN
  /\ apex_present \in BOOLEAN
  /\ ACCUMULATE_GRAD \in BOOLEAN
  /\ ACCUMULATE_STEPS \in 1..MaxAccSteps
  /\ has_callback \in BOOLEAN
  /\ arguments_iteration \in 0..MaxStart
  /\ pc = "start"
  /\ max_iter = 0
  /\ start_iter = 0
  /\ iteration = 0
  /\ consumed = 0
  /\ TIME_DATA_TO_GPU = <<>>
  /\ TIME_FORWARD = <<>>
  /\ TIME_BACKWARD = <<>>
  /\ TIME_REDUCE = <<>>
  /\ TIME_OPTIMIZER = <<>>
  /\ TIME_LOGGING = <<>>
  /\ TIME_DATALOADER = <<>>
  /\ writes = {}
  /\ trace = <<>>
  /\ error = "none"
  /\ info_lines = 0

\* lines 59-75
Start ==
  /\ pc = "start"
  /\ max_iter' = data_loader_len
  /\ start_iter' = arguments_iteration
  /\ TIME_DATA_TO_GPU' = ZeroList(data_loader_len)
  /\ TIME_FORWARD' = ZeroList(data_loader_len)
  /\ TIME_BACKWARD' = ZeroList(data_loader_len)
  /\ TIME_REDUCE' = ZeroList(data_loader_len)
  /\ TIME_OPTIMIZER' = ZeroList(data_loader_len)
  /\ TIME_LOGGING' = ZeroList(data_loader_len)
  /\ TIME_DATALOADER' = ZeroList(data_loader_len)
  /\ trace' = Append(trace, Event("train_start", 0))
  /\ pc' = "loop"
  /\ UNCHANGED <<rvars, tinputs, arguments_iteration, iteration, consumed,
                 writes, error, info_lines>>

\* line 77, the loader is exhausted
LoopExit ==
  /\ pc = "loop"
  /\ consumed = loader_batches
  /\ pc' = "end"
  /\ UNCHANGED <<rvars, tinputs, arguments_iteration, max_iter, start_iter,
                 iteration, consumed, tarrays, writes, trace, error, info_lines>>

\* lines 77-79: enumerate(data_loader, start_iter) yields the next batch and
\* TIME_DATALOADER[iteration] is written with the 0-based enumerate index
LoadBatch ==
  /\ pc = "loop"
  /\ consumed < loader_batches
  /\ LET it == start_iter + consumed
     IN  /\ iteration' = it
         /\ trace' = Append(trace, Event("batch", it + 1))
         /\ writes' = writes \cup {<<"TIME_DATALOADER", it>>}
         /\ IF IndexOk(TIME_DATALOADER, it)
            THEN /\ TIME_DATALOADER' = SetItem(TIME_DATALOADER, it)
                 /\ pc' = "to_gpu"
                 /\ error' = error
            ELSE /\ TIME_DATALOADER' = TIME_DATALOADER
                 /\ pc' = "crashed"
                 /\ error' = "IndexError"
  /\ consumed' = consumed + 1
  /\ UNCHANGED <<rvars, tinputs, arguments_iteration, max_iter, start_iter,
                 TIME_DATA_TO_GPU, TIME_FORWARD, TIME_BACKWARD, TIME_REDUCE,
                 TIME_OPTIMIZER, TIME_LOGGING, info_lines>>

\* lines 81-89
DataToGpu ==
  /\ pc = "to_gpu"
  /\ iteration' = iteration + 1
  /\ arguments_iteration' = iteration + 1
  /\ TIME_DATA_TO_GPU' = TimedWrite(TIME_DATA_TO_GPU, iteration + 1)
  /\ writes' = TimedWriteLog("TIME_DATA_TO_GPU", iteration + 1)
  /\ trace' = Append(trace, Event("set_iteration", iteration + 1))
  /\ pc' = "forward"
  /\ UNCHANGED <<rvars, tinputs, max_iter, start_iter, consumed, TIME_FORWARD,
                 TIME_BACKWARD, TIME_REDUCE, TIME_OPTIMIZER, TIME_LOGGING,
                 TIME_DATALOADER, error, info_lines>>

\* lines 93-99
Forward ==
  /\ pc = "forward"
  /\ TIME_FORWARD' = TimedWrite(TIME_FORWARD, iteration)
  /\ writes' = TimedWriteLog("TIME_FORWARD", iteration)
  /\ trace' = Append(trace, Event("forward", iteration))
  /\ pc' = "reduce"
  /\ UNCHANGED <<rvars, tinputs, arguments_iteration, max_iter, start_iter,
                 iteration, consumed, TIME_DATA_TO_GPU, TIME_BACKWARD,
                 TIME_REDUCE, TIME_OPTIMIZER, TIME_LOGGING, TIME_DATALOADER,
                 error, info_lines>>

\* lines 103-109: the call of reduce_loss_dict and the meters update
ReduceLosses ==
  /\ pc = "reduce"
  /\ TIME_REDUCE' = TimedWrite(TIME_REDUCE, iteration)
  /\ writes' = TimedWriteLog("TIME_REDUCE", iteration)
  /\ trace' = Append(trace, Event("reduce", iteration))
  /\ pc' = "backward"
  /\ UNCHANGED <<rvars, tinputs, arguments_iteration, max_iter, start_iter,
                 iteration, consumed, TIME_DATA_TO_GPU, TIME_FORWARD,
                 TIME_BACKWARD, TIME_OPTIMIZER, TIME_LOGGING, TIME_DATALOADER,
                 error, info_lines>>

\* lines 115-123: use_amp is the parameter of do_train; the name amp is bound
\* only when the import of line 14 succeeded
Backward ==
  /\ pc = "backward"
  /\ IF use_amp /\ ~apex_present
     THEN /\ pc' = "crashed"
          /\ error' = "NameError"
          /\ UNCHANGED <<TIME_BACKWARD, writes, trace>>
     ELSE /\ trace' = Append(trace,
                 Event(IF use_amp THEN "backward_amp" ELSE "backward", iteration))
          /\ TIME_BACKWARD' = TimedWrite(TIME_BACKWARD, iteration)
          /\ writes' = TimedWriteLog("TIME_BACKWARD", iteration)
          /\ pc' = "optimizer"
          /\ error' = error
  /\ UNCHANGED <<rvars, tinputs, arguments_iteration, max_iter, start_iter,
                 iteration, consumed, TIME_DATA_TO_GPU, TIME_FORWARD,
                 TIME_REDUCE, TIME_OPTIMIZER, TIME_LOGGING, TIME_DATALOADER,
                 info_lines>>

\* lines 128-139: whether optimizer.step() is taken in this iteration
StepTaken(it) ==
  IF ~ACCUMULATE_GRAD THEN TRUE ELSE (it + 1) % ACCUMULATE_STEPS = 0

\* lines 126-141
OptimizerStep ==
  /\ pc = "optimizer"
  /\ trace' = IF StepTaken(iteration)
              THEN Append(trace, Event("optimizer_step", iteration))
              ELSE trace
  /\ TIME_OPTIMIZER' = TimedWrite(TIME_OPTIMIZER, iteration)
  /\ writes' = TimedWriteLog("TIME_OPTIMIZER", iteration)
  /\ pc' = "logging"
  /\ UNCHANGED <<rvars, tinputs, arguments_iteration, max_iter, start_iter,
                 iteration, consumed, TIME_DATA_TO_GPU, TIME_FORWARD,
                 TIME_BACKWARD, TIME_REDUCE, TIME_LOGGING, TIME_DATALOADER,
                 error, info_lines>>

\* lines 154-184: the logger.info lines of one iteration
InfoLines(it) ==
  (IF it % LogEvery = 0 THEN 1 ELSE 0)
  + (IF it > VerboseAfter /\ (it % LogEvery = 0 \/ it = max_iter) THEN 1 ELSE 0)

\* lines 145-184
Logging ==
  /\ pc = "logging"
  /\ info_lines' = info_lines + InfoLines(iteration)
  /\ trace' = Append(trace, Event("log", iteration))
  /\ pc' = "checkpoint"
  /\ UNCHANGED <<rvars, tinputs, arguments_iteration, max_iter, start_iter,
                 iteration, consumed, tarrays, writes, error>>

\* the period tested on the 0-based enumerate index
PeriodicDueZeroBased(it) == (it - 1) % checkpoint_period = 0

\* line 186
PeriodicDue(it) == it % checkpoint_period = 0

\* the final save tested on the 0-based enumerate index
FinalDueZeroBased(it) == it = max_iter - 1

\* line 188
FinalDue(it) == it = max_iter

\* lines 186-189: the checkpointer.save calls of one iteration, in order
Saves(it) ==
  (IF PeriodicDue(it)
   THEN <<SaveEvent(it, CheckpointName(it), arguments_iteration)>> ELSE <<>>)
  \o
  (IF FinalDue(it)
   THEN <<SaveEvent(it, FinalName, arguments_iteration)>> ELSE <<>>)

\* the checkpoint section going straight back to the loop head
CheckpointNoCallback ==
  /\ pc = "checkpoint"
  /\ trace' = trace \o Saves(iteration)
  /\ TIME_LOGGING' = TimedWrite(TIME_LOGGING, iteration)
  /\ writes' = TimedWriteLog("TIME_LOGGING", iteration)
  /\ pc' = "loop"
  /\ UNCHANGED <<rvars, tinputs, arguments_iteration, max_iter, start_iter,
                 iteration, consumed, TIME_DATA_TO_GPU, TIME_FORWARD,
                 TIME_BACKWARD, TIME_REDUCE, TIME_OPTIMIZER, TIME_DATALOADER,
                 error, info_lines>>

\* lines 186-192
Checkpoint ==
  /\ pc = "checkpoint"
  /\ trace' = trace \o Saves(iteration)
  /\ TIME_LOGGING' = TimedWrite(TIME_LOGGING, iteration)
  /\ writes' = TimedWriteLog("TIME_LOGGING", iteration)
  /\ pc' = "callback"
  /\ UNCHANGED <<rvars, tinputs, arguments_iteration, max_iter, start_iter,
                 iteration, consumed, TIME_DATA_TO_GPU, TIME_FORWARD,
                 TIME_BACKWARD, TIME_REDUCE, TIME_OPTIMIZER, TIME_DATALOADER,
                 error, info_lines>>

\* the break of line 199 left out
AfterCallbackNoBreak(early_exit) == "loop"

\* lines 198-199: where the loop goes after the callback returned early_exit
AfterCallback(early_exit) == IF early_exit THEN "end" ELSE "loop"

\* lines 196-199
Callback ==
  /\ pc = "callback"
  /\ IF has_callback
     THEN \E early_exit \in BOOLEAN :
            /\ trace' = Append(trace, CallbackEvent(iteration, early_exit))
            /\ pc' = AfterCallback(early_exit)
     ELSE /\ trace' = trace
          /\ pc' = "loop"
  /\ UNCHANGED <<rvars, tinputs, arguments_iteration, max_iter, start_iter,
                 iteration, consumed, tarrays, writes, error, info_lines>>

\* lines 202-205: the end-of-training dllogger entry
EndLog ==
  /\ pc = "end"
  /\ trace' = Append(trace, Event("end_log", iteration))
  /\ pc' = "stats"
  /\ UNCHANGED <<rvars, tinputs, arguments_iteration, max_iter, start_iter,
                 iteration, consumed, tarrays, writes, error, info_lines>>

\* lines 207-257: statistics.mean needs one data point, statistics.stdev two
Statistics ==
  /\ pc = "stats"
  /\ IF Len(TIME_DATA_TO_GPU) < 2
     THEN pc' = "crashed" /\ error' = "StatisticsError"
     ELSE pc' = "done" /\ error' = error
  /\ UNCHANGED <<rvars, tinputs, arguments_iteration, max_iter, start_iter,
                 iteration, consumed, tarrays, writes, trace, info_lines>>

TrainNext ==
  \/ Start
  \/ LoopExit
  \/ LoadBatch
  \/ DataToGpu
  \/ Forward
  \/ ReduceLosses
  \/ Backward
  \/ OptimizerStep
  \/ Logging
  \/ Checkpoint
  \/ Callback
  \/ EndLog
  \/ Statistics

ReduceTrainIdle ==
  /\ data_loader_len = 0
  /\ loader_batches = 0
  /\ checkpoint_period = 1
  /\ use_amp = FALSE
  /\ apex_present = FALSE
  /\ ACCUMULATE_GRAD = FALSE
  /\ ACCUMULATE_STEPS = 1
  /\ has_callback = FALSE
  /\ arguments_iteration = 0
  /\ pc = "idle"
  /\ max_iter = 0
  /\ start_iter = 0
  /\ iteration = 0
  /\ consumed = 0
  /\ TIME_DATA_TO_GPU = <<>>
  /\ TIME_FORWARD = <<>>
  /\ TIME_BACKWARD = <<>>
  /\ TIME_REDUCE = <<>>
  /\ TIME_OPTIMIZER = <<>>
  /\ TIME_LOGGING = <<>>
  /\ TIME_DATALOADER = <<>>
  /\ writes = {}
  /\ trace = <<>>
  /\ error = "none"
  /\ info_lines = 0

Init == TrainInit
Next == TrainNext
Spec == Init /\ [][Next]_vars

InitReduce == ReduceInit /\ ReduceTrainIdle
NextReduce == ReduceNext
SpecReduce == InitReduce /\ [][NextReduce]_vars

\* =========================================================================
\* Properties of reduce_loss_dict (checked under SpecReduce)
\* =========================================================================
InputSum(k) == SeqSum([r \in 1..world_size |-> loss_dict[r - 1][k]])

\* position of key k in the sorted order of key set K
SortedPos(K, k) == Cardinality({j \in K : j <= k})

\* C1: with world_size >= 2 and all ranks called over the same key set, the
\* value rank 0 gets back for every key k is the sum of all ranks' inputs for
\* k divided by world_size (stated cross-multiplied: value * world_size = sum).
C1_Rank0GetsAverage ==
  (world_size >= 2 /\ rpc[0] = "returned") =>
    \A k \in DOMAIN loss_dict[0] :
      /\ k \in DOMAIN reduced_losses[0]
      /\ reduced_losses[0][k][2] > 0
      /\ reduced_losses[0][k][1] * world_size
           = reduced_losses[0][k][2] * InputSum(k)

C1_Witness ==
  /\ world_size >= 2
  /\ rpc[0] = "returned"
  /\ \E r \in Ranks : key_order[r] # key_order[0]
  /\ \E k, l \in DOMAIN loss_dict[0] :
       /\ InputSum(k) # InputSum(l)
       /\ InputSum(k) % world_size # 0

\* C2: on every rank and for every world size the returned dict has exactly
\* the keys of the input, and each key carries the value the reduce left in
\* that key's own slot (rank 0: the average of that key; other ranks: that
\* key's own input or that key's sum); with world_size < 2 the input comes
\* back unchanged and dist.reduce is not called.
C2_SameKeysSameSlots ==
  \A r \in Ranks :
    rpc[r] = "returned" =>
      /\ DOMAIN reduced_losses[r] = DOMAIN loss_dict[r]
      /\ world_size < 2 =>
           /\ reduce_calls[r] = 0
           /\ \A k \in DOMAIN loss_dict[r] :
                reduced_losses[r][k] = <<loss_dict[r][k], 1>>
      /\ world_size >= 2 =>
           \A k \in DOMAIN loss_dict[r] :
             /\ reduced_losses[r][k]
                  = all_losses[r][SortedPos(DOMAIN loss_dict[r], k)]
             /\ r = 0 => reduced_losses[r][k][1] * world_size
                           = reduced_losses[r][k][2] * InputSum(k)
             /\ r # 0 => reduced_losses[r][k] \in
                           {<<loss_dict[r][k], 1>>, <<InputSum(k), 1>>}

C2_Witness ==
  /\ world_size >= 2
  /\ \A r \in Ranks : rpc[r] = "returned"
  /\ Cardinality(DOMAIN loss_dict[0]) >= 2
  /\ \E r \in Ranks \ {0} : \E k, l \in DOMAIN loss_dict[r] :
       /\ reduced_losses[r][k] # reduced_losses[r][l]
       /\ reduced_losses[r][k] = <<InputSum(k), 1>>
       /\ loss_dict[r][k] # InputSum(k)

\* =========================================================================
\* Properties of do_train (checked under Spec)
\* =========================================================================
DigitVal(c) == CHOOSE d \in 0..9 : DigitChar[d + 1] = c

RECURSIVE ParseInt(_)
ParseInt(s) ==
  IF s = <<>> THEN 0
  ELSE 10 * ParseInt(SubSeq(s, 1, Len(s) - 1)) + DigitVal(s[Len(s)])

Idx == DOMAIN trace

IsSave(j) == trace[j].ev = "save"
IsFinalSave(j) == IsSave(j) /\ trace[j].name = FinalName
IsPeriodicSave(j) == IsSave(j) /\ trace[j].name # FinalName

\* C3: without apex, whatever use_amp is passed to do_train, every backward
\* pass goes through losses.backward() and no NameError on amp is raised.
C3_FallbackWithoutApex ==
  ~apex_present =>
    /\ error # "NameError"
    /\ \A j \in Idx : trace[j].ev # "backward_amp"
    /\ \A j \in Idx : trace[j].ev = "reduce" =>
         \/ \E i \in Idx : i > j /\ trace[i].ev = "backward"
                                /\ trace[i].it = trace[j].it
         \/ pc = "backward"

\* order of the steps inside one iteration
StepRank(e) ==
  CASE e.ev = "batch" -> 1
    [] e.ev = "set_iteration" -> 2
    [] e.ev = "forward" -> 3
    [] e.ev = "reduce" -> 4
    [] e.ev \in {"backward", "backward_amp"} -> 5
    [] e.ev = "optimizer_step" -> 6
    [] e.ev = "log" -> 7
    [] e.ev = "save" /\ e.name # FinalName -> 8
    [] e.ev = "save" /\ e.name = FinalName -> 9
    [] e.ev = "callback" -> 10
    [] OTHER -> 0

LoopIdx == {j \in Idx : StepRank(trace[j]) > 0}

\* the steps every iteration takes
MandatoryRanks == {1, 2, 3, 4, 5, 7} \cup (IF has_callback THEN {10} ELSE {})

C4_Ordered ==
  \A i, j \in LoopIdx :
    i < j => \/ trace[i].it < trace[j].it
             \/ /\ trace[i].it = trace[j].it
                /\ StepRank(trace[i]) < StepRank(trace[j])

C4_NothingSkipped ==
  \A j \in LoopIdx : \A n \in (start_iter + 1)..trace[j].it : \A m \in MandatoryRanks :
    (n < trace[j].it \/ m < StepRank(trace[j])) =>
      \E i \in LoopIdx : /\ i < j
                         /\ trace[i].it = n
                         /\ StepRank(trace[i]) = m
                         /\ (m = 10 /\ n < trace[j].it) => ~trace[i].ret

\* C4: in every iteration the steps run in the order batch load and
\* arguments["iteration"], forward, reduce, backward, optimizer step (if
\* taken), logging, checkpoint save (if taken), callback; and every step of
\* iteration i+1 comes after the callback of iteration i.
C4_FixedStepOrder == C4_Ordered /\ C4_NothingSkipped

C4_Witness ==
  /\ has_callback
  /\ pc = "done"
  /\ \E j \in Idx : trace[j].ev = "optimizer_step"
  /\ \E j \in Idx : IsPeriodicSave(j)
  /\ \E i, j \in Idx : /\ trace[i].ev = "callback" /\ trace[j].ev = "callback"
                       /\ trace[i].it + 1 = trace[j].it

\* iteration n has left lines 186-189 behind
PastCheckpoint(n) ==
  /\ \E j \in Idx : trace[j].ev = "log" /\ trace[j].it = n
  /\ ~(pc = "checkpoint" /\ iteration = n)

PeriodicSavesOf(n) ==
  {j \in Idx : IsPeriodicSave(j) /\ ParseInt(Tail(trace[j].name)) = n}

\* C5: model_<iteration, 7 digits> is saved in exactly the executed
\* iterations whose 1-based number is a multiple of checkpoint_period, once,
\* with arguments["iteration"] equal to the number in the name.
C5_PeriodicCheckpoints ==
  /\ \A n \in {trace[j].it : j \in Idx} :
       PastCheckpoint(n) =>
         Cardinality(PeriodicSavesOf(n))
           = (IF n % checkpoint_period = 0 THEN 1 ELSE 0)
  /\ \A j \in Idx :
       IsPeriodicSave(j) =>
         /\ Head(trace[j].name) = "model_"
         /\ Len(Tail(trace[j].name)) = PadWidth
         /\ ParseInt(Tail(trace[j].name)) = trace[j].it
         /\ trace[j].args = trace[j].it
         /\ trace[j].it % checkpoint_period = 0
         /\ \E i \in Idx : i < j /\ trace[i].ev = "log" /\ trace[i].it = trace[j].it

C5_Witness ==
  /\ checkpoint_period = 2
  /\ pc = "done"
  /\ PeriodicSavesOf(2) # {}
  /\ PastCheckpoint(1) /\ PastCheckpoint(3)

\* C6: the seven timing lists have length max_iter = len(data_loader) and,
\* when the loader yields len(data_loader) batches, every write to them uses
\* an index in 0..max_iter-1, whatever the start iteration.
C6_TimingIndexInRange ==
  (pc # "start" /\ loader_batches = data_loader_len) =>
    /\ max_iter = data_loader_len
    /\ \A a \in {TIME_DATA_TO_GPU, TIME_FORWARD, TIME_BACKWARD, TIME_REDUCE,
                 TIME_OPTIMIZER, TIME_LOGGING, TIME_DATALOADER} :
         Len(a) = max_iter
    /\ \A w \in writes : w[2] \in 0..(max_iter - 1)

FinalIdx == {j \in Idx : IsFinalSave(j)}

\* C7: model_final is saved at most once, only in iteration max_iter, after
\* that iteration's periodic checkpoint; no iteration gets a number or does
\* training work after it; a run the callback ended before iteration
\* max_iter has no model_final.
C7_FinalCheckpoint ==
  /\ Cardinality(FinalIdx) <= 1
  /\ \A j \in FinalIdx :
       /\ trace[j].it = max_iter
       /\ trace[j].args = max_iter
       /\ arguments_iteration = max_iter
       /\ \A i \in Idx : (IsPeriodicSave(i) /\ trace[i].it = trace[j].it) => i < j
       /\ \A i \in Idx : i > j => trace[i].ev \in {"callback", "batch", "end_log"}
       /\ \A i \in Idx : (i > j /\ trace[i].ev = "batch") => error = "IndexError"
  /\ (\E j \in Idx : trace[j].ev = "callback" /\ trace[j].ret /\ trace[j].it < max_iter)
       => FinalIdx = {}

C7_Witness ==
  /\ pc = "done"
  /\ has_callback
  /\ \E j \in FinalIdx : \E i \in Idx : IsPeriodicSave(i) /\ trace[i].it = trace[j].it
  /\ Len(trace) > 20

EndLogs == {j \in Idx : trace[j].ev = "end_log"}

\* the last event of the checkpoint section of an iteration
ClosesIteration(j) ==
  /\ trace[j].ev \in {"log", "save"}
  /\ j < Len(trace) => trace[j + 1].ev # "save"
  /\ ~(pc = "checkpoint" /\ j = Len(trace))

ContinuesAfter(j) ==
  IF j < Len(trace)
  THEN \/ trace[j + 1].ev = "batch" /\ trace[j + 1].it = trace[j].it + 1
       \/ trace[j + 1].ev = "end_log" /\ consumed = loader_batches
  ELSE \/ pc = "loop"
       \/ pc = "end" /\ consumed = loader_batches
       \/ pc = "callback" /\ ~has_callback

\* C8: after the callback returned true at iteration i nothing of the loop
\* runs any more, arguments["iteration"] stays i and the end-of-training
\* entry is emitted once; when the callback is None or returns false the
\* loop goes on to the next batch (or ends because the loader is exhausted).
C8_EarlyExit ==
  /\ Cardinality(EndLogs) <= 1
  /\ \A j \in Idx :
       (trace[j].ev = "callback" /\ trace[j].ret) =>
         /\ \A i \in Idx : i > j => trace[i].ev = "end_log"
         /\ arguments_iteration = trace[j].it
         /\ pc \in {"end", "stats", "done", "crashed"}
         /\ pc = "crashed" => error = "StatisticsError"
         /\ Cardinality(EndLogs) = (IF pc = "end" THEN 0 ELSE 1)
  /\ \A j \in Idx :
       (trace[j].ev = "callback" /\ ~trace[j].ret) => ContinuesAfter(j)
  /\ ~has_callback => \A j \in Idx : ClosesIteration(j) => ContinuesAfter(j)

C8_Witness ==
  /\ pc = "done"
  /\ consumed < loader_batches
  /\ \E i, j \in Idx : /\ i < j
                       /\ trace[i].ev = "callback" /\ ~trace[i].ret
                       /\ trace[j].ev = "callback" /\ trace[j].ret
  /\ Cardinality(EndLogs) = 1

====
